---- MODULE Spec2Model ----
(***************************************************************************)
(* A model of the schedAI timetable service.                               *)
(*                                                                         *)
(*   Spec : one POST /schedule request of src/sched_AI.py, from the        *)
(*          configuration it receives to the HTTP response: pre-check,     *)
(*          construction of the CP model, the solver (a black box that     *)
(*          may return any assignment satisfying the constraints that      *)
(*          were posted), extraction of the schedule entries.  The same    *)
(*          request served by the router of src/api.py is followed up to   *)
(*          its call of the solver.                                        *)
(*   SpecConflict : one call of check_schedule_conflict_logic              *)
(*          (src/services/conflict_service.py) on a ConflictRequest.       *)
(*   SpecVacant : one call of get_vacant_slots on a list of occupied       *)
(*          intervals.                                                     *)
(*   SpecAssign : one call of AssignmentService.assign_courses             *)
(*          (src/services/assignment_service.py).                          *)
(*   SpecCalls : POST /schedule requests one after the other, interleaved  *)
(*          with a call of the conflict analyzer and of the load assigner. *)
(***************************************************************************)
EXTENDS Integers, Sequences, FiniteSets, TLC

(***************************************************************************)
(* Bounds of the model.                                                    *)
(***************************************************************************)
MaxSections == 2
MaxSubjects == 2
MaxDur == 2
NumRooms == 2
MaxTeachers == 2
MaxDays == 2
HoursPerDay == 2
MaxInstances == 2

(***************************************************************************)
(* Program constants.                                                      *)
(***************************************************************************)
start_hour == 8

VARIABLES
    route,          \* the handler serving the request: sched_AI.post_schedule or api.generate_schedule
    cfg,            \* the configuration post_schedule passes to build_and_solve
    pc,             \* position of the request in post_schedule / build_and_solve
    pre_errors,     \* build_and_solve's pre_errors
    model,          \* the cp_model.CpModel under construction (NoModel before line 140)
    solver_calls,   \* number of solver.solve(model) calls made for this request
    status,         \* the status solver.solve returned
    sol,            \* the values the solver holds (solver.Value)
    schedule_entries, \* build_and_solve's schedule_entries
    response,       \* the HTTP response of post_schedule
    creq,           \* the ConflictRequest given to check_schedule_conflict_logic
    cpc,            \* position of the call in check_schedule_conflict_logic
    reads,          \* number of records of existing_schedules the call has iterated over
    room_schedules_by_day,        \* its dictionary room_id -> day -> [(start, end)]
    instructor_schedules_by_day,  \* its dictionary instructor_id -> day -> [(start, end)]
    report,         \* what the call returned or raised
    occupied_list,  \* the list get_vacant_slots is given (and sorts in place)
    vpc,            \* position of the call in get_vacant_slots
    vacant_slots,   \* the list get_vacant_slots returns
    req_courses,    \* the courses given to AssignmentService.assign_courses
    req_instructors, \* the instructors given to assign_courses
    apc,            \* position of the call in assign_courses
    unique_instructors, \* the instructors kept by the deduplication, in order
    pending_depts,  \* the departments the loop of line 33 has still to visit
    assignments,    \* assign_courses's list of CourseAssignment
    aresult,        \* how the call ended: "returned" or "raised"
    module_defaults, \* the module-level default configuration of sched_AI.py
    calls,          \* number of POST /schedule requests received so far
    pd_pc,          \* position of build_and_solve in the assembly of its per-day view
    per_day_entries, \* build_and_solve's per_day_entries: day index -> list of runs
    ent_idx,        \* position in schedule_entries of the entry the loop of line 260 is at
    cur             \* the local cur of the while loop of line 264

schedVars == <<route, cfg, pc, pre_errors, model, solver_calls, status, sol, schedule_entries, response>>
conflictVars == <<creq, cpc, reads, room_schedules_by_day, instructor_schedules_by_day, report>>
vacantVars == <<occupied_list, vpc, vacant_slots>>
assignVars == <<req_courses, req_instructors, apc, unique_instructors, pending_depts, assignments, aresult>>
moduleVars == <<module_defaults, calls>>
perDayVars == <<pd_pc, per_day_entries, ent_idx, cur>>
vars == <<schedVars, conflictVars, vacantVars, assignVars, moduleVars, perDayVars>>

NoModel == [built |-> FALSE]
NoValue == "none"
NoResponse == [code |-> 0]
NoRequest == [new_schedule |-> <<>>, existing_schedules |-> <<>>]
NoReport == [kind |-> "pending"]

\* No request of the kind is being served: the variables of a handler the
\* specification at hand does not run.
SchedIdle ==
    /\ route = "none"
    /\ cfg = <<>>
    /\ pc = "idle"
    /\ pre_errors = <<>>
    /\ model = NoModel
    /\ solver_calls = 0
    /\ status = NoValue
    /\ sol = <<>>
    /\ schedule_entries = <<>>
    /\ response = NoResponse

ConflictIdle ==
    /\ creq = NoRequest
    /\ cpc = "idle"
    /\ reads = 0
    /\ room_schedules_by_day = <<>>
    /\ instructor_schedules_by_day = <<>>
    /\ report = NoReport

VacantIdle ==
    /\ occupied_list = <<>>
    /\ vpc = "idle"
    /\ vacant_slots = <<>>

PerDayIdle ==
    /\ pd_pc = "idle"
    /\ per_day_entries = <<>>
    /\ ent_idx = 0
    /\ cur = 0

AssignIdle ==
    /\ req_courses = <<>>
    /\ req_instructors = <<>>
    /\ apc = "idle"
    /\ unique_instructors = <<>>
    /\ pending_depts = <<>>
    /\ assignments = <<>>
    /\ aresult = NoValue

(***************************************************************************)
(* Helpers over finite sets and sequences.                                 *)
(***************************************************************************)
RECURSIVE SumSeq(_)
SumSeq(s) == IF s = <<>> THEN 0 ELSE Head(s) + SumSeq(Tail(s))

\* All orders (sequences without repetition) of the elements of the set S.
RECURSIVE Orders(_)
Orders(S) ==
    IF S = {} THEN {<<>>}
    ELSE UNION { { <<x>> \o o : o \in Orders(S \ {x}) } : x \in S }

(***************************************************************************)
(* Configurations.  A subject is the 4-tuple (code, title, duration,       *)
(* needs_lab) of the source without its title; a teacher is its id and     *)
(* its can_teach list.  Sections, rooms and days are lists of distinct     *)
(* names, kept as their lengths; indices are 0-based as in the source.     *)
(* Subject codes are distinct: the subject at position i has code i.       *)
(***************************************************************************)
Codes(n) == 0 .. (n - 1)

SubjectLists ==
    UNION { { s \in [1 .. n -> [code : Codes(n), dur : 1 .. MaxDur, lab : BOOLEAN]] :
                \A i \in 1 .. n : s[i].code = i - 1 } : n \in 1 .. MaxSubjects }

\* Teacher ids are distinct integers; they need not be the positions in the list.
TeacherLists(nsubj) ==
    UNION { { t \in [1 .. n -> [id : 0 .. MaxTeachers, can_teach : SUBSET Codes(nsubj)]] :
                \A i, j \in 1 .. n : i # j => t[i].id # t[j].id } : n \in 1 .. MaxTeachers }

Configs ==
    UNION { [ nsec : { n \in 1 .. MaxSections : n * Len(s) <= MaxInstances },
              subjects : {s},
              nrooms : {NumRooms},
              comlab : SUBSET (0 .. (NumRooms - 1)),
              ndays : 1 .. MaxDays,
              hpd : {HoursPerDay},
              teachers : TeacherLists(Len(s)) ] : s \in SubjectLists }

(***************************************************************************)
(* precheck_config (src/sched_AI.py:84-113).  The three capacity errors    *)
(* are appended in a fixed order; the coverage errors follow, one per      *)
(* uncovered subject code, in the iteration order of a Python set.         *)
(***************************************************************************)
\* sum(s[2] for s in subjects), ... if s[3], ... if not s[3]: the summands.
AllDurations(subjects) == [i \in 1 .. Len(subjects) |-> subjects[i].dur]
LabDurations(subjects) ==
    [i \in 1 .. Len(subjects) |-> IF subjects[i].lab THEN subjects[i].dur ELSE 0]
NonLabDurations(subjects) ==
    [i \in 1 .. Len(subjects) |-> IF ~subjects[i].lab THEN subjects[i].dur ELSE 0]

WeeklyHours(c) == c.hpd * c.ndays

per_section_total(c) == SumSeq(AllDurations(c.subjects))
total_lab_hours_needed(c) == SumSeq(LabDurations(c.subjects)) * c.nsec
lab_capacity(c) == Cardinality(c.comlab) * WeeklyHours(c)
nonlab_hours_needed(c) == SumSeq(NonLabDurations(c.subjects)) * c.nsec
\* Mutant: the classroom capacity counts every room, labs included.
classroom_capacity_AllRooms(c) == c.nrooms * WeeklyHours(c)

classroom_capacity(c) == (c.nrooms - Cardinality(c.comlab)) * WeeklyHours(c)

\* teacher_can: the subject codes some teacher lists in can_teach.
teacher_can(c) == UNION { c.teachers[i].can_teach : i \in 1 .. Len(c.teachers) }

subject_codes(c) == { c.subjects[i].code : i \in 1 .. Len(c.subjects) }

UncoveredCodes(c) == { sc \in subject_codes(c) : sc \notin teacher_can(c) }

CapacityErrors(c) ==
    (IF per_section_total(c) > WeeklyHours(c)
        THEN << [kind |-> "section_hours"] >> ELSE <<>>)
    \o (IF total_lab_hours_needed(c) > lab_capacity(c)
        THEN << [kind |-> "lab_capacity"] >> ELSE <<>>)
    \o (IF nonlab_hours_needed(c) > classroom_capacity(c)
        THEN << [kind |-> "classroom_capacity"] >> ELSE <<>>)

CoverageErrors(order) ==
    [i \in 1 .. Len(order) |-> [kind |-> "no_teacher", code |-> order[i]]]

\* The lists precheck_config may return (one per iteration order of subject_codes).
precheck_config(c) ==
    { CapacityErrors(c) \o CoverageErrors(o) : o \in Orders(UncoveredCodes(c)) }

(***************************************************************************)
(* The module-level defaults of src/sched_AI.py (lines 13-45), scaled to   *)
(* the bounds of the model: one section, one one-hour classroom subject,   *)
(* one teacher who can teach it, one day, the last room a comlab.          *)
(***************************************************************************)
DefaultConfig ==
    [ nsec |-> 1,
      subjects |-> << [code |-> 0, dur |-> 1, lab |-> FALSE] >>,
      nrooms |-> NumRooms,
      comlab |-> {NumRooms - 1},
      ndays |-> 1,
      hpd |-> HoursPerDay,
      teachers |-> << [id |-> 0, can_teach |-> {0}] >> ]

\* The state after the import of the module.
ModuleLoaded ==
    /\ module_defaults = DefaultConfig
    /\ calls = 0

(***************************************************************************)
(* The request.                                                            *)
(***************************************************************************)
Init ==
    /\ ModuleLoaded
    /\ PerDayIdle
    /\ route \in {"sched_AI", "api"}
    /\ cfg \in Configs
    /\ pc = "precheck"
    /\ pre_errors = <<>>
    /\ model = NoModel
    /\ solver_calls = 0
    /\ status = NoValue
    /\ sol = <<>>
    /\ schedule_entries = <<>>
    /\ response = NoResponse
    /\ ConflictIdle
    /\ VacantIdle
    /\ AssignIdle

\* Mutant: the pre-check errors are computed but never raised.
Precheck_NoRaise ==
    /\ route = "sched_AI"
    /\ pc = "precheck"
    /\ \E errs \in precheck_config(cfg) :
        /\ pre_errors' = errs
        /\ pc' = "build"
    /\ UNCHANGED <<route, cfg, model, solver_calls, status, sol, schedule_entries, response>>
    /\ UNCHANGED <<conflictVars, vacantVars, assignVars, moduleVars, perDayVars>>

\* Mutant: the error list outlives the invocation (a list created once, at
\* module level or as a default argument) and every pre-check appends to it.
Precheck_Accumulates ==
    /\ route = "sched_AI"
    /\ pc = "precheck"
    /\ \E errs \in precheck_config(cfg) :
        /\ pre_errors' = pre_errors \o errs
        /\ pc' = IF pre_errors \o errs # <<>> THEN "value_error" ELSE "build"
    /\ UNCHANGED <<route, cfg, model, solver_calls, status, sol, schedule_entries, response>>
    /\ UNCHANGED <<conflictVars, vacantVars, assignVars, moduleVars, perDayVars>>

\* build_and_solve lines 127-138: the pre-check, and the ValueError it raises.
Precheck ==
    /\ route = "sched_AI"
    /\ pc = "precheck"
    /\ \E errs \in precheck_config(cfg) :
        /\ pre_errors' = errs
        /\ pc' = IF errs # <<>> THEN "value_error" ELSE "build"
    /\ UNCHANGED <<route, cfg, model, solver_calls, status, sol, schedule_entries, response>>
    /\ UNCHANGED <<conflictVars, vacantVars, assignVars, moduleVars, perDayVars>>

(***************************************************************************)
(* The CP model build_and_solve posts (src/sched_AI.py:140-205).           *)
(* all_instances lists the (section, subject) pairs section-major; the     *)
(* instance at position k (1-based) is section (k-1) \div nsubj, subject   *)
(* (k-1) % nsubj.                                                          *)
(***************************************************************************)
num_subjects(c) == Len(c.subjects)
num_teachers(c) == Len(c.teachers)
num_instances(c) == c.nsec * num_subjects(c)
sec_of(c, k) == (k - 1) \div num_subjects(c)
subj_of(c, k) == (k - 1) % num_subjects(c)
SubjectAt(c, k) == c.subjects[subj_of(c, k) + 1]

\* lines 160-167: the rooms the room-sum constraint of instance k ranges over.
allowed_rooms(c, k) ==
    IF SubjectAt(c, k).lab THEN c.comlab ELSE 0 .. (c.nrooms - 1)

\* line 174: the teacher[id] values the teacher-sum constraint ranges over.
eligible_teacher_indices(c, k) ==
    { c.teachers[i].id : i \in { j \in 1 .. num_teachers(c) :
                                   SubjectAt(c, k).code \in c.teachers[j].can_teach } }

\* assign_teacher is keyed by the positions range(num_teachers): indexing it
\* with a teacher id outside that range raises KeyError at line 176.
TeacherKeyError(c) ==
    \E k \in 1 .. num_instances(c) :
        \E t \in eligible_teacher_indices(c, k) : t \notin 0 .. (num_teachers(c) - 1)

CpModel(c) ==
    [ built |-> TRUE,
      H |-> c.hpd * c.ndays,
      n |-> num_instances(c),
      nrooms |-> c.nrooms,
      nteachers |-> num_teachers(c),
      sec |-> [k \in 1 .. num_instances(c) |-> sec_of(c, k)],
      dur |-> [k \in 1 .. num_instances(c) |-> SubjectAt(c, k).dur],
      room_sum |-> [k \in 1 .. num_instances(c) |-> allowed_rooms(c, k)],
      teacher_sum |-> [k \in 1 .. num_instances(c) |-> eligible_teacher_indices(c, k)] ]

(***************************************************************************)
(* The assignments the posted constraints admit.  An assignment gives each *)
(* instance its start, the set of rooms whose assign_room boolean is 1 and *)
(* the set of teacher indices whose assign_teacher boolean is 1.           *)
(***************************************************************************)
\* Domains and the two sum constraints of instance k (lines 152-154, 167, 176).
LocalValues(m, k) ==
    { [start |-> s, rooms |-> R, teachers |-> T] :
        s \in 0 .. (m.H - m.dur[k]),
        R \in { X \in SUBSET (0 .. (m.nrooms - 1)) :
                  Cardinality(X \cap m.room_sum[k]) = 1 },
        T \in { X \in SUBSET (0 .. (m.nteachers - 1)) :
                  Cardinality(X \cap m.teacher_sum[k]) = 1 } }

Overlap(s1, d1, s2, d2) == s1 < s2 + d2 /\ s2 < s1 + d1

\* Mutant: the per-room add_no_overlap is missing.
NoOverlapOK_NoRoom(m, i, a, k, b) ==
    (\/ m.sec[i] = m.sec[k]
     \/ a.teachers \cap b.teachers # {})
        => ~Overlap(a.start, m.dur[i], b.start, m.dur[k])

\* add_no_overlap per room (line 187), per section (194), per teacher (205),
\* between instance i with values a and instance k with values b.
NoOverlapOK(m, i, a, k, b) ==
    (\/ m.sec[i] = m.sec[k]
     \/ a.rooms \cap b.rooms # {}
     \/ a.teachers \cap b.teachers # {})
        => ~Overlap(a.start, m.dur[i], b.start, m.dur[k])

RECURSIVE Assignments(_, _)
Assignments(m, k) ==
    IF k = 0 THEN { <<>> }
    ELSE { Append(pv[1], pv[2]) :
             pv \in { qv \in Assignments(m, k - 1) \X LocalValues(m, k) :
                        \A i \in 1 .. (k - 1) : NoOverlapOK(m, i, qv[1][i], k, qv[2]) } }

Solutions(m) == Assignments(m, m.n)

\* lines 140-205: the model is built, unless a teacher id is no valid key.
BuildModel ==
    /\ pc = "build"
    /\ IF TeacherKeyError(cfg)
          THEN /\ pc' = "exception"
               /\ model' = [built |-> TRUE]
          ELSE /\ pc' = "solve"
               /\ model' = CpModel(cfg)
    /\ UNCHANGED <<route, cfg, pre_errors, solver_calls, status, sol, schedule_entries, response>>
    /\ UNCHANGED <<conflictVars, vacantVars, assignVars, moduleVars, perDayVars>>

\* lines 211-218: solver.solve(model).  The solver returns OPTIMAL or FEASIBLE
\* with any assignment satisfying the constraints, INFEASIBLE when there is
\* none, or UNKNOWN when the time limit ends the search.
Solve ==
    /\ pc = "solve"
    /\ solver_calls' = solver_calls + 1
    /\ \/ \E a \in Solutions(model) :
            /\ status' \in {"OPTIMAL", "FEASIBLE"}
            /\ sol' = a
            /\ pc' = "extract"
       \/ /\ Solutions(model) = {}
          /\ status' = "INFEASIBLE"
          /\ sol' = sol
          /\ pc' = "runtime_error"
       \/ /\ status' = "UNKNOWN"
          /\ sol' = sol
          /\ pc' = "runtime_error"
    /\ UNCHANGED <<route, cfg, pre_errors, model, schedule_entries, response>>
    /\ UNCHANGED <<conflictVars, vacantVars, assignVars, moduleVars, perDayVars>>

(***************************************************************************)
(* Extraction of the solution (src/sched_AI.py:220-256).                   *)
(***************************************************************************)
None == "None"

\* slot_to_day_hour (lines 62-66)
slot_to_day_hour(slot, hours_per_day_local, start_hour_local) ==
    << slot \div hours_per_day_local, start_hour_local + (slot % hours_per_day_local) >>

\* lines 226-235: the first index whose boolean is 1, None when there is none.
FirstSet(S) == IF S = {} THEN None ELSE CHOOSE x \in S : \A y \in S : x <= y

\* line 255: the name of the first teacher whose id is assigned_teacher.  A
\* teacher's name is modelled by its position in the teacher list.
teacher_name(c, assigned_teacher) ==
    LET hits == { i \in 1 .. num_teachers(c) : c.teachers[i].id = assigned_teacher }
    IN  FirstSet(hits)

\* lines 242-256: the entry of instance k with values v.
Entry(c, k, v) ==
    LET dur == SubjectAt(c, k).dur
        s_val == v.start
        e_val == s_val + dur
        assigned_room == FirstSet(v.rooms)
        assigned_teacher == FirstSet(v.teachers)
        sdh == slot_to_day_hour(s_val, c.hpd, start_hour)
        edh == slot_to_day_hour(e_val - 1, c.hpd, start_hour)
    IN  [ section |-> sec_of(c, k),
          subject_code |-> SubjectAt(c, k).code,
          start_slot |-> s_val,
          end_slot_exclusive |-> e_val,
          start_day |-> sdh[1],
          end_day |-> edh[1],
          start_hour |-> sdh[2],
          end_hour_exclusive |-> sdh[2] + dur,
          room |-> assigned_room,
          duration |-> dur,
          teacher_id |-> assigned_teacher,
          teacher_name |-> teacher_name(c, assigned_teacher) ]

\* lines 236-239: an instance without a room or teacher boolean set.
Unassigned(a) ==
    \E k \in 1 .. Len(a) : a[k].rooms = {} \/ a[k].teachers = {}

\* lines 220-305: the entries are extracted and the result is returned, or the
\* extraction raises RuntimeError.
Extract ==
    /\ pc = "extract"
    /\ IF Unassigned(sol)
          THEN /\ pc' = "runtime_error"
               /\ schedule_entries' = schedule_entries
          ELSE /\ pc' = "return"
               /\ schedule_entries' = [k \in 1 .. Len(sol) |-> Entry(cfg, k, sol[k])]
    /\ UNCHANGED <<route, cfg, pre_errors, model, solver_calls, status, sol, response>>
    /\ UNCHANGED <<conflictVars, vacantVars, assignVars, moduleVars, perDayVars>>

(***************************************************************************)
(* post_schedule (src/sched_AI.py:326-361).                                *)
(***************************************************************************)
\* line 354: return result
Return200 ==
    /\ pc = "return"
    /\ response' = [code |-> 200, timetable |-> schedule_entries]
    /\ pc' = "done"
    /\ UNCHANGED <<route, cfg, pre_errors, model, solver_calls, status, sol, schedule_entries>>
    /\ UNCHANGED <<conflictVars, vacantVars, assignVars, moduleVars, perDayVars>>

\* lines 355-357: except ValueError -> 400 with the pre-check errors
HandleValueError ==
    /\ pc = "value_error"
    /\ response' = [code |-> 400, detail |-> pre_errors]
    /\ pc' = "done"
    /\ UNCHANGED <<route, cfg, pre_errors, model, solver_calls, status, sol, schedule_entries>>
    /\ UNCHANGED <<conflictVars, vacantVars, assignVars, moduleVars, perDayVars>>

\* lines 358-359: except RuntimeError -> 500
HandleRuntimeError ==
    /\ pc = "runtime_error"
    /\ response' = [code |-> 500, detail |-> "RuntimeError"]
    /\ pc' = "done"
    /\ UNCHANGED <<route, cfg, pre_errors, model, solver_calls, status, sol, schedule_entries>>
    /\ UNCHANGED <<conflictVars, vacantVars, assignVars, moduleVars, perDayVars>>

\* lines 360-361: except Exception -> 500 "Unexpected error"
HandleException ==
    /\ pc = "exception"
    /\ response' = [code |-> 500, detail |-> "Unexpected error"]
    /\ pc' = "done"
    /\ UNCHANGED <<route, cfg, pre_errors, model, solver_calls, status, sol, schedule_entries>>
    /\ UNCHANGED <<conflictVars, vacantVars, assignVars, moduleVars, perDayVars>>

(***************************************************************************)
(* The router of src/api.py: ConfigValidator.validate, then ScheduleSolver. *)
(***************************************************************************)
\* ConfigValidator.validate (src/validator.py:9-39): the coverage errors are
\* appended in the order of the subject list.
RECURSIVE UncoveredInOrder(_, _)
UncoveredInOrder(c, i) ==
    IF i > Len(c.subjects) THEN <<>>
    ELSE (IF c.subjects[i].code \in teacher_can(c) THEN <<>> ELSE << c.subjects[i].code >>)
         \o UncoveredInOrder(c, i + 1)

validate(c) ==
    LET total_hours == c.ndays * c.hpd
        total_lab == SumSeq(LabDurations(c.subjects)) * c.nsec
        total_nonlab == SumSeq(NonLabDurations(c.subjects)) * c.nsec
    IN  (IF SumSeq(AllDurations(c.subjects)) > total_hours
            THEN << [kind |-> "section_hours"] >> ELSE <<>>)
        \o (IF total_lab > Cardinality(c.comlab) * total_hours
            THEN << [kind |-> "lab_capacity"] >> ELSE <<>>)
        \o (IF total_nonlab > (c.nrooms - Cardinality(c.comlab)) * total_hours
            THEN << [kind |-> "classroom_capacity"] >> ELSE <<>>)
        \o CoverageErrors(UncoveredInOrder(c, 1))

\* generate_schedule lines 11-14 (src/api.py): validate, and 400 on errors.
ApiValidate ==
    /\ route = "api"
    /\ pc = "precheck"
    /\ pre_errors' = validate(cfg)
    /\ IF validate(cfg) # <<>>
          THEN /\ response' = [code |-> 400, detail |-> validate(cfg)]
               /\ pc' = "done"
          ELSE /\ response' = response
               /\ pc' = "api_solver"
    /\ UNCHANGED <<route, cfg, model, solver_calls, status, sol, schedule_entries>>
    /\ UNCHANGED <<conflictVars, vacantVars, assignVars, moduleVars, perDayVars>>

\* generate_schedule lines 16-18 with src/solver.py: ScheduleSolver(config)
\* creates an empty CpModel, build_model posts nothing and solve() runs the
\* solver on it.  What follows (the formatter) is not modelled.
ApiSolve ==
    /\ route = "api"
    /\ pc = "api_solver"
    /\ model' = [built |-> TRUE]
    /\ solver_calls' = solver_calls + 1
    /\ status' = "OPTIMAL"
    /\ pc' = "api_solved"
    /\ UNCHANGED <<route, cfg, pre_errors, sol, schedule_entries, response>>
    /\ UNCHANGED <<conflictVars, vacantVars, assignVars, moduleVars, perDayVars>>

Next ==
    \/ Precheck
    \/ BuildModel
    \/ Solve
    \/ Extract
    \/ Return200
    \/ HandleValueError
    \/ HandleRuntimeError
    \/ HandleException
    \/ ApiValidate
    \/ ApiSolve

Spec == Init /\ [][Next]_vars

(***************************************************************************)
(* The conflict analyzer (src/services/conflict_service.py).               *)
(*                                                                         *)
(* A time string "HH:MM" is the tuple <<h, m>> and "HH:MM:SS" the tuple    *)
(* <<h, m, s>>.  A datetime of the fixed date strptime gives is its number *)
(* of seconds since midnight.  A formatted time "9:30 AM" is the tuple     *)
(* <<9, 30, "AM">>.                                                        *)
(***************************************************************************)
MaxExisting == 2

\* parse_time (lines 5-10): "%H:%M:%S" first, then "%H:%M".
parse_time(t) ==
    IF Len(t) = 3 THEN t[1] * 3600 + t[2] * 60 + t[3]
    ELSE t[1] * 3600 + t[2] * 60

\* datetime.strftime("%H:%M")
strftime_HM(d) == << d \div 3600, (d % 3600) \div 60 >>

\* format_time_ampm (lines 12-20): strftime("%I:%M %p").lstrip('0')
format_time_ampm(time_str) ==
    LET time_obj == parse_time(time_str)
        h == time_obj \div 3600
    IN  << IF h % 12 = 0 THEN 12 ELSE h % 12,
           (time_obj % 3600) \div 60,
           IF h < 12 THEN "AM" ELSE "PM" >>

\* The fields of ScheduleData (src/models/scheduling_model.py:31-39); a
\* pydantic model ignores any other key of the request body, and reading an
\* attribute that is no field raises AttributeError.
ScheduleDataFields ==
    {"id", "academic_year_id", "trimester_id", "room_id", "instructor_id",
     "days", "start_time", "end_time"}

HasAttr(field) == field \in ScheduleDataFields

\* The requests.  The new schedule is in academic year 1, trimester 1, room 1
\* with instructor 1; its times range over the boundaries of the school hours
\* and of the lunch break.  Every schedule has start_time < end_time.
NewTimePoints ==
    { <<5, 30>>, <<6, 0>>, <<9, 30>>, <<12, 0>>, <<12, 30>>, <<13, 0>>, <<21, 0>>, <<21, 30>> }
ExistingTimePoints == { <<9, 0>>, <<9, 30, 0>>, <<10, 0>> }
Scopes == { <<1, 1>>, <<1, 2>>, <<2, 1>> }

ScheduleData(scopes, rooms, instructors, daysets, points) ==
    { [ academic_year_id |-> sc[1], trimester_id |-> sc[2], room_id |-> r,
        instructor_id |-> i, days |-> d, start_time |-> t[1], end_time |-> t[2] ] :
        sc \in scopes, r \in rooms, i \in instructors, d \in daysets,
        t \in { x \in points \X points : parse_time(x[1]) < parse_time(x[2]) } }

NewSchedules ==
    ScheduleData({<<1, 1>>}, {1}, {1}, { {"Mon"}, {"Mon", "Tue"} }, NewTimePoints)
ExistingSchedules ==
    ScheduleData(Scopes, {1, 2}, {1, 2}, { {"Mon"}, {"Tue"} }, ExistingTimePoints)

ConflictRequests ==
    [ new_schedule : NewSchedules,
      existing_schedules : UNION { [1 .. n -> ExistingSchedules] : n \in 0 .. MaxExisting } ]

\* lines 112-117
school_start == parse_time(<<6, 0>>)
school_end == parse_time(<<21, 0>>)
lunch_start == parse_time(<<12, 0>>)
lunch_end == parse_time(<<13, 0>>)

\* line 123
outside_school_hours(new) ==
    parse_time(new.start_time) < school_start \/ parse_time(new.end_time) > school_end

\* Mutant: the lunch test takes the interval as closed.
lunch_overlap_Closed(new) ==
    parse_time(new.start_time) <= lunch_end /\ parse_time(new.end_time) >= lunch_start

\* line 132
lunch_overlap(new) ==
    parse_time(new.start_time) < lunch_end /\ parse_time(new.end_time) > lunch_start

\* What the call ends with: a returned dictionary (kind "report") or a raised
\* exception (kind "raised").  Continue is a loop iteration that ends neither way.
SchoolHoursReport ==
    [kind |-> "report", conflict |-> TRUE, type |-> "school_hours", suggestions |-> <<>>]
LunchBreakReport ==
    [kind |-> "report", conflict |-> TRUE, type |-> "lunch_break", suggestions |-> <<>>]
NoConflictReport ==
    [kind |-> "report", conflict |-> FALSE, type |-> "none", suggestions |-> <<>>]
Raised(exception) == [kind |-> "raised", type |-> exception]
Continue == [kind |-> "continue"]

\* lines 147 and 175-178
same_scope(existing, new) ==
    /\ existing.academic_year_id = new.academic_year_id
    /\ existing.trimester_id = new.trimester_id

\* lines 145-171: the dictionary keyed by the given field after the first n
\* records of existing_schedules.
RECURSIVE GroupByDay(_, _, _)
GroupByDay(req, n, field) ==
    IF n = 0 THEN <<>>
    ELSE LET g == GroupByDay(req, n - 1, field)
             existing == req.existing_schedules[n]
             key == existing[field]
             slot == << parse_time(existing.start_time), parse_time(existing.end_time) >>
         IN  IF ~same_scope(existing, req.new_schedule) THEN g
             ELSE [ k \in DOMAIN g \cup {key} |->
                      LET old == IF k \in DOMAIN g THEN g[k] ELSE <<>>
                          days == DOMAIN old \cup (IF k = key THEN existing.days ELSE {})
                      IN  [ d \in days |->
                              (IF d \in DOMAIN old THEN old[d] ELSE <<>>)
                              \o (IF k = key /\ d \in existing.days THEN <<slot>> ELSE <<>>) ] ]

\* list.sort(key=lambda x: x[0]) (line 45): a stable sort by start.
RECURSIVE InsertByStart(_, _)
InsertByStart(sorted, x) ==
    IF sorted = <<>> THEN <<x>>
    ELSE IF sorted[Len(sorted)][1] <= x[1] THEN Append(sorted, x)
    ELSE Append(InsertByStart(SubSeq(sorted, 1, Len(sorted) - 1), x), sorted[Len(sorted)])

RECURSIVE SortByStart(_)
SortByStart(l) ==
    IF l = <<>> THEN <<>>
    ELSE InsertByStart(SortByStart(SubSeq(l, 1, Len(l) - 1)), l[Len(l)])

VacantSlot(a, b) ==
    [ start |-> format_time_ampm(strftime_HM(a)), end |-> format_time_ampm(strftime_HM(b)) ]

\* lines 56-84: the gaps after the first i pairs of neighbours.
RECURSIVE GapsBetween(_, _, _, _)
GapsBetween(occ, i, l_start, l_end) ==
    IF i = 0 THEN <<>>
    ELSE LET current_end == occ[i][2]
             next_start == occ[i + 1][1]
         IN  GapsBetween(occ, i - 1, l_start, l_end)
             \o (IF current_end >= next_start THEN <<>>
                 ELSE IF current_end <= l_start /\ next_start >= l_end
                     THEN (IF current_end < l_start
                              THEN << VacantSlot(current_end, l_start) >> ELSE <<>>)
                          \o (IF l_end < next_start
                              THEN << VacantSlot(l_end, next_start) >> ELSE <<>>)
                 ELSE << VacantSlot(current_end, next_start) >>)

\* get_vacant_slots (lines 40-105)
get_vacant_slots(occupied_slots, day_start, day_end, l_start, l_end) ==
    LET occ == SortByStart(occupied_slots)
        first_occupied_start == IF occ # <<>> THEN occ[1][1] ELSE day_end
    IN  (IF day_start < first_occupied_start
            THEN << VacantSlot(day_start, first_occupied_start) >> ELSE <<>>)
        \o (IF Len(occ) > 1 THEN GapsBetween(occ, Len(occ) - 1, l_start, l_end) ELSE <<>>)
        \o (IF occ # <<>>
               THEN (IF occ[Len(occ)][2] < day_end
                        THEN << VacantSlot(occ[Len(occ)][2], day_end) >> ELSE <<>>)
               ELSE << VacantSlot(day_start, l_start), VacantSlot(l_end, day_end) >>)

\* lines 206-219 and 242-255: the vacant slots of the resource `key` of the
\* dictionary on the overlapping days, days without a vacant slot left out.
VacantByDay(by_day, key, overlapping_days) ==
    LET slots(d) == get_vacant_slots(by_day[key][d], school_start, school_end,
                                      lunch_start, lunch_end)
        days == { d \in overlapping_days :
                    key \in DOMAIN by_day /\ d \in DOMAIN by_day[key] /\ slots(d) # <<>> }
    IN  [ d \in days |-> slots(d) ]

\* line 191
time_overlap(existing, new) ==
    /\ parse_time(new.start_time) < parse_time(existing.end_time)
    /\ parse_time(new.end_time) > parse_time(existing.start_time)

\* lines 174-271: what the second loop does with one record: Continue, a
\* report it returns, or an exception it raises.
ScanRecord(existing, new, by_room, by_instructor) ==
    LET overlapping_days == existing.days \cap new.days
        conflict_time == << format_time_ampm(existing.start_time),
                            format_time_ampm(existing.end_time) >>
    IN  IF ~same_scope(existing, new) THEN Continue
        ELSE IF overlapping_days = {} THEN Continue
        ELSE IF ~time_overlap(existing, new) THEN Continue
        ELSE IF ~HasAttr("instructor_name") \/ ~HasAttr("room_name")
            THEN Raised("AttributeError")
        ELSE IF existing.room_id = new.room_id
            THEN [ kind |-> "report", conflict |-> TRUE, type |-> "room",
                   suggestions |-> VacantByDay(by_room, existing.room_id, overlapping_days),
                   conflicting_instructor_id |-> existing.instructor_id,
                   conflicting_room_id |-> existing.room_id,
                   days |-> overlapping_days,
                   time |-> conflict_time ]
        ELSE IF existing.instructor_id = new.instructor_id
            THEN [ kind |-> "report", conflict |-> TRUE, type |-> "instructor",
                   suggestions |-> VacantByDay(by_instructor, existing.instructor_id,
                                               overlapping_days),
                   conflicting_instructor_id |-> existing.instructor_id,
                   days |-> overlapping_days,
                   time |-> conflict_time ]
        ELSE Continue

\* Mutant: the second loop returns after its first record.
ScanFrom_FirstOnly(req, i, by_room, by_instructor) ==
    IF i > Len(req.existing_schedules) THEN NoConflictReport
    ELSE LET r == ScanRecord(req.existing_schedules[i], req.new_schedule,
                             by_room, by_instructor)
         IN  IF r = Continue THEN NoConflictReport ELSE r

\* lines 173-278: the second loop from record i on, and the final return.
RECURSIVE ScanFrom(_, _, _, _)
ScanFrom(req, i, by_room, by_instructor) ==
    IF i > Len(req.existing_schedules) THEN NoConflictReport
    ELSE LET r == ScanRecord(req.existing_schedules[i], req.new_schedule,
                             by_room, by_instructor)
         IN  IF r = Continue THEN ScanFrom(req, i + 1, by_room, by_instructor) ELSE r

\* The number of records the second loop iterates over before it ends.
RECURSIVE ScanReads(_, _, _, _)
ScanReads(req, i, by_room, by_instructor) ==
    IF i > Len(req.existing_schedules) THEN 0
    ELSE IF ScanRecord(req.existing_schedules[i], req.new_schedule,
                       by_room, by_instructor) = Continue
        THEN 1 + ScanReads(req, i + 1, by_room, by_instructor)
    ELSE 1

\* check_schedule_conflict_logic (lines 107-278) as a function of its request.
check_schedule_conflict_logic(request) ==
    IF outside_school_hours(request.new_schedule) THEN SchoolHoursReport
    ELSE IF lunch_overlap(request.new_schedule) THEN LunchBreakReport
    ELSE ScanFrom(request, 1,
                  GroupByDay(request, Len(request.existing_schedules), "room_id"),
                  GroupByDay(request, Len(request.existing_schedules), "instructor_id"))

InitConflict ==
    /\ ModuleLoaded
    /\ PerDayIdle
    /\ SchedIdle
    /\ VacantIdle
    /\ AssignIdle
    /\ creq \in ConflictRequests
    /\ cpc = "school_hours"
    /\ reads = 0
    /\ room_schedules_by_day = <<>>
    /\ instructor_schedules_by_day = <<>>
    /\ report = NoReport

\* lines 109-129
CheckSchoolHours ==
    /\ cpc = "school_hours"
    /\ IF outside_school_hours(creq.new_schedule)
          THEN report' = SchoolHoursReport /\ cpc' = "done"
          ELSE report' = report /\ cpc' = "lunch"
    /\ UNCHANGED <<creq, reads, room_schedules_by_day, instructor_schedules_by_day>>
    /\ UNCHANGED <<schedVars, vacantVars, assignVars, moduleVars, perDayVars>>

\* lines 131-139
CheckLunch ==
    /\ cpc = "lunch"
    /\ IF lunch_overlap(creq.new_schedule)
          THEN report' = LunchBreakReport /\ cpc' = "done"
          ELSE report' = report /\ cpc' = "group"
    /\ UNCHANGED <<creq, reads, room_schedules_by_day, instructor_schedules_by_day>>
    /\ UNCHANGED <<schedVars, vacantVars, assignVars, moduleVars, perDayVars>>

\* lines 141-171: the first loop over existing_schedules
GroupExisting ==
    /\ cpc = "group"
    /\ room_schedules_by_day' =
          GroupByDay(creq, Len(creq.existing_schedules), "room_id")
    /\ instructor_schedules_by_day' =
          GroupByDay(creq, Len(creq.existing_schedules), "instructor_id")
    /\ reads' = reads + Len(creq.existing_schedules)
    /\ cpc' = "scan"
    /\ UNCHANGED <<creq, report>>
    /\ UNCHANGED <<schedVars, vacantVars, assignVars, moduleVars, perDayVars>>

\* lines 173-278: the second loop over existing_schedules and the return
ScanExisting ==
    /\ cpc = "scan"
    /\ report' = ScanFrom(creq, 1, room_schedules_by_day, instructor_schedules_by_day)
    /\ reads' = reads + ScanReads(creq, 1, room_schedules_by_day, instructor_schedules_by_day)
    /\ cpc' = "done"
    /\ UNCHANGED <<creq, room_schedules_by_day, instructor_schedules_by_day>>
    /\ UNCHANGED <<schedVars, vacantVars, assignVars, moduleVars, perDayVars>>

NextConflict ==
    \/ CheckSchoolHours
    \/ CheckLunch
    \/ GroupExisting
    \/ ScanExisting

SpecConflict == InitConflict /\ [][NextConflict]_vars

(***************************************************************************)
(* get_vacant_slots (src/services/conflict_service.py:40-105) called on a  *)
(* list of occupied (start, end) pairs with the operating window and the   *)
(* lunch break of check_schedule_conflict_logic.                           *)
(***************************************************************************)
MaxOccupied == 2

\* The hours the occupied intervals start and end at.
OccupiedHours == {6, 9, 12, 13, 17, 21}

\* The (start, end) pairs inside [06:00, 21:00), as appended at lines 166-171.
OccupiedPairs ==
    { << parse_time(<<p[1], 0>>), parse_time(<<p[2], 0>>) >> :
        p \in { x \in OccupiedHours \X OccupiedHours : x[1] < x[2] } }

OccupiedLists == UNION { [1 .. n -> OccupiedPairs] : n \in 0 .. MaxOccupied }

InitVacant ==
    /\ ModuleLoaded
    /\ PerDayIdle
    /\ SchedIdle
    /\ ConflictIdle
    /\ AssignIdle
    /\ occupied_list \in OccupiedLists
    /\ vpc = "call"
    /\ vacant_slots = <<>>

\* lines 40-105: the list is sorted in place (line 45) and the gaps returned.
CallGetVacantSlots ==
    /\ vpc = "call"
    /\ occupied_list' = SortByStart(occupied_list)
    /\ vacant_slots' = get_vacant_slots(occupied_list, school_start, school_end,
                                        lunch_start, lunch_end)
    /\ vpc' = "done"
    /\ UNCHANGED <<schedVars, conflictVars, assignVars, moduleVars, perDayVars>>

NextVacant == CallGetVacantSlots

SpecVacant == InitVacant /\ [][NextVacant]_vars

(***************************************************************************)
(* The load assigner (src/services/assignment_service.py).                 *)
(*                                                                         *)
(* A course is its id, units and dept_id; an instructor its id, user_id,   *)
(* dept_id and max_load.  Ids are distinct: the record at position k of a  *)
(* list has id k.  The solver is a black box that searches the posted      *)
(* model to the end: it holds an optimal solution when the model has a     *)
(* solution, and no solution otherwise.                                    *)
(***************************************************************************)
MaxCourses == 4
MaxInstructors == 3

\* model.NewIntVar(0, 100, "max_load") and (0, 100, "min_load"), lines 70-71
load_var_max == 100

DeptIds == {1, 2}
UnitValues == {3, 60}
UserIds == {1, 2}
MaxLoadValues == {12}

CourseLists ==
    UNION { { [ k \in 1 .. n |-> [id |-> k, units |-> u[k], dept_id |-> d[k]] ] :
                u \in [1 .. n -> UnitValues], d \in [1 .. n -> DeptIds] } :
            n \in 0 .. MaxCourses }

InstructorLists ==
    UNION { { [ k \in 1 .. n |->
                  [id |-> k, user_id |-> x[k][1], dept_id |-> x[k][2], max_load |-> x[k][3]] ] :
                x \in [1 .. n -> UserIds \X DeptIds \X MaxLoadValues] } :
            n \in 0 .. MaxInstructors }

\* Mutant: a later instructor with the same user_id replaces the earlier one.
RECURSIVE Deduplicate_KeepLast(_)
Deduplicate_KeepLast(insts) ==
    IF insts = <<>> THEN <<>>
    ELSE LET inst == Head(insts)
             rest == Tail(insts)
         IN  IF \E k \in 1 .. Len(rest) : rest[k].user_id = inst.user_id
                THEN Deduplicate_KeepLast(rest)
                ELSE <<inst>> \o Deduplicate_KeepLast(rest)

\* lines 13-24: the first instructor of each user_id, in input order.
RECURSIVE Deduplicate(_)
Deduplicate(insts) ==
    IF insts = <<>> THEN <<>>
    ELSE LET kept == Deduplicate(SubSeq(insts, 1, Len(insts) - 1))
             inst == insts[Len(insts)]
         IN  IF \E k \in 1 .. Len(kept) : kept[k].user_id = inst.user_id
                THEN kept ELSE Append(kept, inst)

\* The elements of the list l whose dept_id is d, in order.
RECURSIVE OfDept(_, _)
OfDept(l, d) ==
    IF l = <<>> THEN <<>>
    ELSE (IF Head(l).dept_id = d THEN <<Head(l)>> ELSE <<>>) \o OfDept(Tail(l), d)

\* Mutant: the instructors are not grouped by department.
dept_instructors_AnyDept(insts, d) == insts

\* lines 27-29 and 37: dept_instructors[d]
dept_instructors(insts, d) == OfDept(insts, d)

\* lines 44-48: the keys of the dictionary _group_courses_by_dept returns, in
\* insertion order (the order in which the departments first occur).
RECURSIVE group_courses_by_dept_keys(_)
group_courses_by_dept_keys(cs) ==
    IF cs = <<>> THEN <<>>
    ELSE LET keys == group_courses_by_dept_keys(SubSeq(cs, 1, Len(cs) - 1))
             d == cs[Len(cs)].dept_id
         IN  IF \E k \in 1 .. Len(keys) : keys[k] = d THEN keys ELSE Append(keys, d)

\* The values of the booleans assign_vars: the way f gives course c (a position
\* of dcourses) to instructor f[c] (a position of dinsts); line 61 lets
\* exactly one boolean of a course be 1.
Ways(dcourses, dinsts) == [1 .. Len(dcourses) -> 1 .. Len(dinsts)]

\* line 67: total_units of the instructor at position i
total_units(f, dcourses, i) ==
    SumSeq([ c \in 1 .. Len(dcourses) |-> IF f[c] = i THEN dcourses[c].units ELSE 0 ])

MaxOf(S) == CHOOSE x \in S : \A y \in S : y <= x
MinOf(S) == CHOOSE x \in S : \A y \in S : x <= y

\* max over the instructors of total_units minus min over them
LoadSpread(f, dcourses, dinsts) ==
    LET loads == { total_units(f, dcourses, i) : i \in 1 .. Len(dinsts) }
    IN  MaxOf(loads) - MinOf(loads)

\* lines 59-74: the ways the posted constraints admit; max_load and min_load
\* range over 0 .. 100, so every total is at most 100.
FeasibleWays(dcourses, dinsts) ==
    { f \in Ways(dcourses, dinsts) :
        \A i \in 1 .. Len(dinsts) : total_units(f, dcourses, i) <= load_var_max }

\* Mutant: the objective is not posted; any feasible way is a solution.
OptimalWays_Unminimized(dcourses, dinsts) == FeasibleWays(dcourses, dinsts)

\* line 76: the feasible ways that minimize max_load - min_load
OptimalWays(dcourses, dinsts) ==
    { f \in FeasibleWays(dcourses, dinsts) :
        \A g \in FeasibleWays(dcourses, dinsts) :
            LoadSpread(f, dcourses, dinsts) <= LoadSpread(g, dcourses, dinsts) }

CourseAssignment(course, inst) == [course_id |-> course.id, instructor_id |-> inst.id]

\* lines 82-87: the list read from the solution f
ExtractAssignments(f, dcourses, dinsts) ==
    [ c \in 1 .. Len(dcourses) |-> CourseAssignment(dcourses[c], dinsts[f[c]]) ]

\* _assign_department_courses (lines 50-87): the lists it can return.  The
\* status solver.Solve returns is not looked at; when the solver holds no
\* solution, solver.BooleanValue raises or reads every boolean as false,
\* depending on the OR-tools release.
assign_department_courses(dcourses, dinsts) ==
    IF OptimalWays(dcourses, dinsts) # {}
        THEN { [kind |-> "list", value |-> ExtractAssignments(f, dcourses, dinsts)] :
                 f \in OptimalWays(dcourses, dinsts) }
        ELSE { [kind |-> "raised", value |-> <<>>], [kind |-> "list", value |-> <<>>] }

InitAssign ==
    /\ ModuleLoaded
    /\ PerDayIdle
    /\ SchedIdle
    /\ ConflictIdle
    /\ VacantIdle
    /\ req_courses \in CourseLists
    /\ req_instructors \in InstructorLists
    /\ apc = "dedup"
    /\ unique_instructors = <<>>
    /\ pending_depts = <<>>
    /\ assignments = <<>>
    /\ aresult = NoValue

\* lines 12-31: deduplication, grouping, and the dictionary the loop of line
\* 33 iterates over
DeduplicateInstructors ==
    /\ apc = "dedup"
    /\ unique_instructors' = Deduplicate(req_instructors)
    /\ pending_depts' = group_courses_by_dept_keys(req_courses)
    /\ apc' = "loop"
    /\ UNCHANGED <<req_courses, req_instructors, assignments, aresult>>
    /\ UNCHANGED <<schedVars, conflictVars, vacantVars, moduleVars, perDayVars>>

\* lines 33-40: one iteration of the loop over the departments of the courses
AssignDepartment ==
    /\ apc = "loop"
    /\ pending_depts # <<>>
    /\ LET dept_id == Head(pending_depts)
           dept_courses == OfDept(req_courses, dept_id)
           insts == dept_instructors(unique_instructors, dept_id)
       IN  IF insts = <<>>
              THEN /\ pending_depts' = Tail(pending_depts)
                   /\ UNCHANGED <<apc, assignments, aresult>>
              ELSE \E out \in assign_department_courses(dept_courses, insts) :
                      IF out.kind = "raised"
                         THEN /\ aresult' = "raised"
                              /\ apc' = "done"
                              /\ UNCHANGED <<pending_depts, assignments>>
                         ELSE /\ assignments' = assignments \o out.value
                              /\ pending_depts' = Tail(pending_depts)
                              /\ UNCHANGED <<apc, aresult>>
    /\ UNCHANGED <<req_courses, req_instructors, unique_instructors>>
    /\ UNCHANGED <<schedVars, conflictVars, vacantVars, moduleVars, perDayVars>>

\* line 42
ReturnAssignments ==
    /\ apc = "loop"
    /\ pending_depts = <<>>
    /\ aresult' = "returned"
    /\ apc' = "done"
    /\ UNCHANGED <<req_courses, req_instructors, unique_instructors, pending_depts, assignments>>
    /\ UNCHANGED <<schedVars, conflictVars, vacantVars, moduleVars, perDayVars>>

NextAssign ==
    \/ DeduplicateInstructors
    \/ AssignDepartment
    \/ ReturnAssignments

SpecAssign == InitAssign /\ [][NextAssign]_vars

(***************************************************************************)
(* Several invocations.  POST /schedule is served MaxCalls times, one      *)
(* request after the other, with or without a body; a call of the conflict *)
(* analyzer and a call of the load assigner run interleaved with them.     *)
(* The locals of build_and_solve keep the values of the previous           *)
(* invocation until the new invocation assigns them.                       *)
(***************************************************************************)
MaxCalls == 2

\* post_schedule (lines 326-361) as a function of the configuration it
\* passes to build_and_solve: the responses it can give.
post_schedule(c) ==
    IF \E errs \in precheck_config(c) : errs # <<>>
        THEN { [code |-> 400, detail |-> errs] : errs \in precheck_config(c) }
    ELSE IF TeacherKeyError(c)
        THEN { [code |-> 500, detail |-> "Unexpected error"] }
    ELSE { [code |-> 500, detail |-> "RuntimeError"] }
         \cup { [code |-> 200,
                 timetable |-> [k \in 1 .. Len(a) |-> Entry(c, k, a[k])]] :
                  a \in { x \in Solutions(CpModel(c)) : ~Unassigned(x) } }

\* assign_courses lines 33-42 from the departments depts on: how the call can
\* end, "returned" with its list or "raised".
RECURSIVE AssignFrom(_, _, _)
AssignFrom(depts, cs, insts) ==
    IF depts = <<>> THEN { [kind |-> "returned", value |-> <<>>] }
    ELSE LET dept_courses == OfDept(cs, Head(depts))
             dinsts == dept_instructors(insts, Head(depts))
         IN  IF dinsts = <<>> THEN AssignFrom(Tail(depts), cs, insts)
             ELSE UNION { IF out.kind = "raised"
                             THEN { [kind |-> "raised", value |-> <<>>] }
                             ELSE { [kind |-> r.kind,
                                     value |-> IF r.kind = "raised" THEN <<>>
                                               ELSE out.value \o r.value] :
                                      r \in AssignFrom(Tail(depts), cs, insts) } :
                          out \in assign_department_courses(dept_courses, dinsts) }

\* assign_courses (lines 11-42) as a function of its arguments.
assign_courses(cs, insts) ==
    AssignFrom(group_courses_by_dept_keys(cs), cs, Deduplicate(insts))

\* The bodies of the requests: one section, one one-hour classroom subject,
\* one day, no comlab and one teacher with any id and can_teach list.
CallConfigs ==
    { c \in Configs :
        /\ c.nsec = 1 /\ Len(c.subjects) = 1 /\ c.ndays = 1 /\ c.comlab = {}
        /\ c.subjects[1].dur = 1 /\ ~c.subjects[1].lab
        /\ Len(c.teachers) = 1 }

CallConflictRequests ==
    { r \in ConflictRequests :
        /\ r.new_schedule.days = {"Mon"}
        /\ r.new_schedule.start_time = <<6, 0>>
        /\ r.new_schedule.end_time \in { <<9, 30>>, <<12, 30>> }
        /\ Len(r.existing_schedules) <= 1
        /\ \A k \in 1 .. Len(r.existing_schedules) :
              /\ r.existing_schedules[k].academic_year_id = 1
              /\ r.existing_schedules[k].trimester_id = 1
              /\ r.existing_schedules[k].room_id = 1
              /\ r.existing_schedules[k].instructor_id = 1
              /\ r.existing_schedules[k].days = {"Mon"}
              /\ r.existing_schedules[k].start_time = <<9, 0>>
              /\ r.existing_schedules[k].end_time = <<10, 0>> }

CallCourseLists ==
    { cs \in CourseLists :
        Len(cs) = 1 /\ \A k \in 1 .. Len(cs) : cs[k].dept_id = 1 }

CallInstructorLists ==
    { l \in InstructorLists :
        Len(l) <= 1 /\ \A k \in 1 .. Len(l) : l[k].user_id = 1 /\ l[k].dept_id = 1 }

\* lines 327-342: the configuration of a request, field by field the body's
\* or the module-level default; with no body it is the defaults.
RequestConfigs == {module_defaults} \cup CallConfigs

InitCalls ==
    /\ module_defaults = DefaultConfig
    /\ PerDayIdle
    /\ calls = 1
    /\ route = "sched_AI"
    /\ cfg \in RequestConfigs
    /\ pc = "precheck"
    /\ pre_errors = <<>>
    /\ model = NoModel
    /\ solver_calls = 0
    /\ status = NoValue
    /\ sol = <<>>
    /\ schedule_entries = <<>>
    /\ response = NoResponse
    /\ creq \in CallConflictRequests
    /\ cpc = "school_hours"
    /\ reads = 0
    /\ room_schedules_by_day = <<>>
    /\ instructor_schedules_by_day = <<>>
    /\ report = NoReport
    /\ VacantIdle
    /\ req_courses \in CallCourseLists
    /\ req_instructors \in CallInstructorLists
    /\ apc = "dedup"
    /\ unique_instructors = <<>>
    /\ pending_depts = <<>>
    /\ assignments = <<>>
    /\ aresult = NoValue

\* lines 311-342: the next POST /schedule request enters post_schedule after
\* the previous one was answered.
NextRequest ==
    /\ pc = "done"
    /\ calls < MaxCalls
    /\ calls' = calls + 1
    /\ cfg' \in RequestConfigs
    /\ pc' = "precheck"
    /\ response' = NoResponse
    /\ solver_calls' = 0
    /\ UNCHANGED <<route, pre_errors, model, status, sol, schedule_entries, module_defaults>>
    /\ UNCHANGED <<conflictVars, vacantVars, assignVars, perDayVars>>

NextCalls ==
    \/ NextRequest
    \/ Precheck
    \/ BuildModel
    \/ Solve
    \/ Extract
    \/ Return200
    \/ HandleValueError
    \/ HandleRuntimeError
    \/ HandleException
    \/ CheckSchoolHours
    \/ CheckLunch
    \/ GroupExisting
    \/ ScanExisting
    \/ DeduplicateInstructors
    \/ AssignDepartment
    \/ ReturnAssignments

SpecCalls == InitCalls /\ [][NextCalls]_vars

(***************************************************************************)
(* The per-day view of build_and_solve (src/sched_AI.py:258-285), from the *)
(* state in which the schedule entries have been extracted.                *)
(* per_day_entries maps a day index to its list of runs.                   *)
(***************************************************************************)
\* The configurations build_and_solve gets past its pre-check and the
\* construction of its model with.
SolvableConfigs ==
    { c \in Configs :
        /\ \A errs \in precheck_config(c) : errs = <<>>
        /\ ~TeacherKeyError(c) }

\* line 267
day_end_slot(day_idx, hours_per_day_local) == (day_idx + 1) * hours_per_day_local

\* Mutant: the run is not cut at the end of the day.
run_end_Uncut(e_slot, end_of_day) == e_slot

\* line 268: min(e_slot, day_end_slot)
run_end(e_slot, end_of_day) == IF e_slot <= end_of_day THEN e_slot ELSE end_of_day

\* lines 265-281: the run that starts at slot run_start of the entry ent
Run(ent, run_start, hours_per_day_local, start_hour_local) ==
    LET day_idx == run_start \div hours_per_day_local
        r_end == run_end(ent.end_slot_exclusive, day_end_slot(day_idx, hours_per_day_local))
    IN  [ start_slot |-> run_start,
          start_hour |-> start_hour_local + (run_start % hours_per_day_local),
          end_hour |-> start_hour_local + ((r_end - 1) % hours_per_day_local) + 1,
          section |-> ent.section,
          subject_code |-> ent.subject_code,
          room |-> ent.room,
          duration |-> r_end - run_start,
          teacher_name |-> ent.teacher_name ]

\* list.sort(key=lambda x: x["start_slot"]) (line 285): a stable sort.
RECURSIVE InsertByStartSlot(_, _)
InsertByStartSlot(sorted, x) ==
    IF sorted = <<>> THEN <<x>>
    ELSE IF sorted[Len(sorted)].start_slot <= x.start_slot THEN Append(sorted, x)
    ELSE Append(InsertByStartSlot(SubSeq(sorted, 1, Len(sorted) - 1), x), sorted[Len(sorted)])

RECURSIVE SortByStartSlot(_)
SortByStartSlot(l) ==
    IF l = <<>> THEN <<>>
    ELSE InsertByStartSlot(SortByStartSlot(SubSeq(l, 1, Len(l) - 1)), l[Len(l)])

\* build_and_solve after line 256: a solution was extracted into
\* schedule_entries; line 259 creates an empty list for every day.
InitPerDay ==
    /\ ModuleLoaded
    /\ ConflictIdle
    /\ VacantIdle
    /\ AssignIdle
    /\ route = "sched_AI"
    /\ cfg \in SolvableConfigs
    /\ pc = "per_day"
    /\ pre_errors = <<>>
    /\ model = CpModel(cfg)
    /\ solver_calls = 1
    /\ status \in {"OPTIMAL", "FEASIBLE"}
    /\ sol \in { a \in Solutions(CpModel(cfg)) : ~Unassigned(a) }
    /\ schedule_entries = [k \in 1 .. Len(sol) |-> Entry(cfg, k, sol[k])]
    /\ response = NoResponse
    /\ pd_pc = "entries"
    /\ per_day_entries = [d_idx \in 0 .. (cfg.ndays - 1) |-> <<>>]
    /\ ent_idx = 0
    /\ cur = 0

\* lines 260-263: the for loop takes the next entry, or ends.
PerDayNextEntry ==
    /\ pd_pc = "entries"
    /\ IF ent_idx < Len(schedule_entries)
          THEN /\ ent_idx' = ent_idx + 1
               /\ cur' = schedule_entries[ent_idx + 1].start_slot
               /\ pd_pc' = "runs"
          ELSE /\ pd_pc' = "sort"
               /\ UNCHANGED <<ent_idx, cur>>
    /\ UNCHANGED per_day_entries
    /\ UNCHANGED <<schedVars, conflictVars, vacantVars, assignVars, moduleVars>>

\* lines 264-282: one test of the while condition and, when it holds, one
\* iteration; per_day_entries[day_idx] raises KeyError for a day that is no key.
PerDayRun ==
    /\ pd_pc = "runs"
    /\ LET ent == schedule_entries[ent_idx]
           day_idx == cur \div cfg.hpd
           run == Run(ent, cur, cfg.hpd, start_hour)
       IN  IF cur < ent.end_slot_exclusive
              THEN IF day_idx \in DOMAIN per_day_entries
                      THEN /\ per_day_entries' =
                                [per_day_entries EXCEPT ![day_idx] = Append(@, run)]
                           /\ cur' = run.start_slot + run.duration
                           /\ pd_pc' = "runs"
                      ELSE /\ pd_pc' = "key_error"
                           /\ UNCHANGED <<per_day_entries, cur>>
              ELSE /\ pd_pc' = "entries"
                   /\ UNCHANGED <<per_day_entries, cur>>
    /\ UNCHANGED ent_idx
    /\ UNCHANGED <<schedVars, conflictVars, vacantVars, assignVars, moduleVars>>

\* lines 284-285: every day's list is sorted by start_slot
PerDaySort ==
    /\ pd_pc = "sort"
    /\ per_day_entries' =
          [d_idx \in DOMAIN per_day_entries |-> SortByStartSlot(per_day_entries[d_idx])]
    /\ pd_pc' = "done"
    /\ UNCHANGED <<ent_idx, cur>>
    /\ UNCHANGED <<schedVars, conflictVars, vacantVars, assignVars, moduleVars>>

NextPerDay ==
    \/ PerDayNextEntry
    \/ PerDayRun
    \/ PerDaySort

SpecPerDay == InitPerDay /\ [][NextPerDay]_vars

(***************************************************************************)
(* Properties of POST /schedule.                                           *)
(***************************************************************************)
\* The timetable returned with a 200 response (empty when there is none).
Returned200 == route = "sched_AI" /\ response.code = 200
Timetable == IF Returned200 THEN response.timetable ELSE <<>>

Disjoint(e1, e2) ==
    \/ e1.start_slot + e1.duration <= e2.start_slot
    \/ e2.start_slot + e2.duration <= e1.start_slot

\* C1: in every returned timetable, two distinct instances that share the
\* section, the reported room or the reported teacher have disjoint half-open
\* slot intervals [start_slot, start_slot + duration).
C1_NoSharedResourceOverlap ==
    \A i, j \in 1 .. Len(Timetable) :
        LET e1 == Timetable[i]
            e2 == Timetable[j]
        IN  (/\ i # j
             /\ \/ e1.section = e2.section
                \/ e1.room = e2.room
                \/ e1.teacher_id = e2.teacher_id)
                => Disjoint(e1, e2)

\* Two instances of different sections were returned in the same room with
\* the same teacher.
C1_Witness ==
    \E i, j \in 1 .. Len(Timetable) :
        /\ i # j
        /\ Timetable[i].section # Timetable[j].section
        /\ Timetable[i].room = Timetable[j].room
        /\ Timetable[i].teacher_id = Timetable[j].teacher_id

\* C2: in every returned timetable, the room reported for an instance whose
\* subject needs a lab is one of comlab_room_indices.
C2_LabSubjectInLabRoom ==
    \A i \in 1 .. Len(Timetable) :
        SubjectAt(cfg, i).lab => Timetable[i].room \in cfg.comlab

\* C3: in every returned timetable, the reported teacher (teacher_id and
\* teacher_name) is a teacher whose can_teach contains the subject code.
C3_ReportedTeacherEligible ==
    \A i \in 1 .. Len(Timetable) :
        \E t \in 1 .. Len(cfg.teachers) :
            /\ cfg.teachers[t].id = Timetable[i].teacher_id
            /\ Timetable[i].teacher_name = t
            /\ Timetable[i].subject_code \in cfg.teachers[t].can_teach

\* C4: in every solution build_and_solve accepts, each instance has exactly
\* one room boolean equal to 1 among all rooms and exactly one teacher
\* boolean equal to 1 among all teachers.
C4_ExactlyOneRoomAndTeacher ==
    (route = "sched_AI" /\ status \in {"OPTIMAL", "FEASIBLE"}) =>
        \A k \in 1 .. Len(sol) :
            /\ Cardinality(sol[k].rooms) = 1
            /\ Cardinality(sol[k].teachers) = 1

\* C5: no instance of a returned timetable crosses a day boundary:
\* (start_slot mod hours_per_day) + duration <= hours_per_day.
C5_NoDayCrossing ==
    \A i \in 1 .. Len(Timetable) :
        (Timetable[i].start_slot % cfg.hpd) + Timetable[i].duration <= cfg.hpd

\* The four conditions of the pre-check, stated from the configuration.
RECURSIVE DurSum(_, _, _)
DurSum(c, i, labs) ==
    IF i = 0 THEN 0
    ELSE (IF c.subjects[i].lab \in labs THEN c.subjects[i].dur ELSE 0) + DurSum(c, i - 1, labs)

SectionOverload(c) == DurSum(c, Len(c.subjects), BOOLEAN) > c.ndays * c.hpd
LabOverload(c) ==
    DurSum(c, Len(c.subjects), {TRUE}) * c.nsec > Cardinality(c.comlab) * c.ndays * c.hpd
ClassroomOverload(c) ==
    DurSum(c, Len(c.subjects), {FALSE}) * c.nsec
        > (c.nrooms - Cardinality(c.comlab)) * c.ndays * c.hpd
NoTeacherFor(c, code) == \A t \in 1 .. Len(c.teachers) : code \notin c.teachers[t].can_teach

Occurrences(E, e) == Cardinality({ i \in 1 .. Len(E) : E[i] = e })
Indicator(b) == IF b THEN 1 ELSE 0

\* C6: the pre-check (precheck_config, and ConfigValidator.validate) returns
\* one error for each of the four conditions exactly when it holds (one per
\* subject code without a teacher), and nothing else: the list is empty when
\* none holds.
C6_PrecheckErrorsExact ==
    pc # "precheck" =>
        /\ Occurrences(pre_errors, [kind |-> "section_hours"]) = Indicator(SectionOverload(cfg))
        /\ Occurrences(pre_errors, [kind |-> "lab_capacity"]) = Indicator(LabOverload(cfg))
        /\ Occurrences(pre_errors, [kind |-> "classroom_capacity"])
              = Indicator(ClassroomOverload(cfg))
        /\ \A i \in 1 .. Len(cfg.subjects) :
              Occurrences(pre_errors, [kind |-> "no_teacher", code |-> cfg.subjects[i].code])
                  = Indicator(NoTeacherFor(cfg, cfg.subjects[i].code))
        /\ Len(pre_errors)
              = Indicator(SectionOverload(cfg)) + Indicator(LabOverload(cfg))
                + Indicator(ClassroomOverload(cfg))
                + Cardinality({ i \in 1 .. Len(cfg.subjects) :
                                  NoTeacherFor(cfg, cfg.subjects[i].code) })

\* precheck_config returned the classroom-capacity error and a coverage
\* error, and neither of the other two.
C6_Witness ==
    /\ route = "sched_AI"
    /\ pc # "precheck"
    /\ Len(pre_errors) = 2
    /\ pre_errors[1] = [kind |-> "classroom_capacity"]
    /\ pre_errors[2].kind = "no_teacher"

\* C7: whenever the pre-check returned at least one error, no CP model is
\* built, the solver is never invoked, and the request ends with a 400
\* response carrying those errors.
C7_NoSolverAfterPrecheckErrors ==
    pre_errors # <<>> =>
        /\ model = NoModel
        /\ solver_calls = 0
        /\ status = NoValue
        /\ pc \in {"value_error", "done"}
        /\ pc = "done" => response = [code |-> 400, detail |-> pre_errors]

\* post_schedule answered 400 after a pre-check with errors.
C7_Witness ==
    /\ route = "sched_AI"
    /\ pc = "done"
    /\ pre_errors # <<>>
    /\ response.code = 400

\* C8: a POST /schedule request ends in exactly one of three outcomes: 400
\* when the pre-check returned errors; 500 when the solver returned a status
\* that is neither OPTIMAL nor FEASIBLE, and then nothing is extracted; 200
\* with the timetable otherwise.
C8_ThreeOutcomes ==
    (route = "sched_AI" /\ pc = "done") =>
        IF pre_errors # <<>>
            THEN response.code = 400
        ELSE IF solver_calls = 1 /\ status \notin {"OPTIMAL", "FEASIBLE"}
            THEN response.code = 500 /\ schedule_entries = <<>>
        ELSE /\ response.code = 200
             /\ response.timetable = schedule_entries
             /\ Len(schedule_entries) = num_instances(cfg)

(***************************************************************************)
(* Properties of the conflict analyzer.                                    *)
(***************************************************************************)
\* A clock string as seconds since midnight.
ClockSeconds(t) == t[1] * 3600 + t[2] * 60 + (IF Len(t) > 2 THEN t[3] ELSE 0)

NewStart == ClockSeconds(creq.new_schedule.start_time)
NewEnd == ClockSeconds(creq.new_schedule.end_time)

\* new.start < 06:00 or new.end > 21:00
NewOutsideSchoolHours == NewStart < 6 * 3600 \/ NewEnd > 21 * 3600
\* [new.start, new.end) intersects [12:00, 13:00)
NewMeetsLunch == NewStart < 13 * 3600 /\ 12 * 3600 < NewEnd

\* Record i of the existing list has the scope of new, shares a day with it,
\* overlaps it in time (half-open) and has its room or its instructor.
MatchesNew(i) ==
    LET ex == creq.existing_schedules[i]
        new == creq.new_schedule
    IN  /\ ex.academic_year_id = new.academic_year_id
        /\ ex.trimester_id = new.trimester_id
        /\ ex.days \cap new.days # {}
        /\ NewStart < ClockSeconds(ex.end_time)
        /\ ClockSeconds(ex.start_time) < NewEnd
        /\ (ex.room_id = new.room_id \/ ex.instructor_id = new.instructor_id)

\* C9: the analyzer checks in a fixed order and short-circuits: outside
\* 06:00-21:00 the report is school_hours whatever the lunch overlap and the
\* existing list are; otherwise, if [new.start, new.end) meets [12:00, 13:00)
\* the report is lunch_break whatever the existing list contains, and the
\* existing list is not read; a schedule ending at 12:00 or starting at
\* 13:00 gets no lunch_break report.
C9_HoursThenLunchShortCircuit ==
    cpc = "done" =>
        IF NewOutsideSchoolHours
            THEN report = SchoolHoursReport /\ reads = 0
        ELSE IF NewMeetsLunch
            THEN report = LunchBreakReport /\ reads = 0
        ELSE ~(report.kind = "report" /\ report.type \in {"school_hours", "lunch_break"})

\* A lunch_break report was returned although a record of the existing list
\* has the scope, a day, the room and overlapping times of new.
C9_Witness ==
    /\ cpc = "done"
    /\ report = LunchBreakReport
    /\ \E i \in 1 .. Len(creq.existing_schedules) :
          MatchesNew(i) /\ creq.existing_schedules[i].room_id = creq.new_schedule.room_id

\* C10: for a new schedule inside school hours that does not meet lunch, the
\* first record of existing_schedules (in input order) that matches new
\* decides the report: type room if it has the room of new, otherwise type
\* instructor.
C10_FirstMatchDecides ==
    (cpc = "done" /\ ~NewOutsideSchoolHours /\ ~NewMeetsLunch) =>
        LET M == { i \in 1 .. Len(creq.existing_schedules) : MatchesNew(i) }
        IN  M # {} =>
              LET f == CHOOSE i \in M : \A j \in M : i <= j
              IN  /\ report.kind = "report"
                  /\ report.type =
                        IF creq.existing_schedules[f].room_id = creq.new_schedule.room_id
                            THEN "room" ELSE "instructor"

\* C11: for a new schedule inside school hours that does not meet lunch, when
\* no record of existing_schedules matches new (scope, a shared day, a
\* half-open time overlap and the room or the instructor of new), the call
\* returns the no-conflict report and raises nothing; this covers a record
\* that overlaps new on a shared day with another room and another
\* instructor, and a record that only touches new.
C11_NoMatchNoConflict ==
    (cpc = "done" /\ ~NewOutsideSchoolHours /\ ~NewMeetsLunch
       /\ \A i \in 1 .. Len(creq.existing_schedules) : ~MatchesNew(i))
        => report = NoConflictReport

(***************************************************************************)
(* Properties of get_vacant_slots.                                         *)
(***************************************************************************)
\* A formatted time <<h, m, "AM" | "PM">> as seconds since midnight.
AmPmSeconds(f) == ((f[1] % 12) + (IF f[3] = "PM" THEN 12 ELSE 0)) * 3600 + f[2] * 60

\* The returned vacant slots as (start, end) pairs of seconds.
VacantPairs ==
    [ i \in 1 .. Len(vacant_slots) |->
        << AmPmSeconds(vacant_slots[i].start), AmPmSeconds(vacant_slots[i].end) >> ]

\* The half-open intervals a and b intersect.
Meets(a, b) == a[1] < b[2] /\ b[1] < a[2]

LunchPair == << 12 * 3600, 13 * 3600 >>

\* The hour [h, h+1) lies in the interval a.
HourIn(h, a) == a[1] <= h * 3600 /\ (h + 1) * 3600 <= a[2]

\* C12: for any list of occupied intervals inside [06:00, 21:00), the vacant
\* intervals returned are pairwise disjoint and ascending, meet neither
\* [12:00, 13:00) nor an occupied interval, lie in [06:00, 21:00), and with
\* the occupied intervals and the lunch gap cover [06:00, 21:00).
C12_VacantPartition ==
    vpc = "done" =>
        /\ \A i, j \in 1 .. Len(VacantPairs) : i < j => VacantPairs[i][2] <= VacantPairs[j][1]
        /\ \A i \in 1 .. Len(VacantPairs) :
              /\ VacantPairs[i][1] < VacantPairs[i][2]
              /\ 6 * 3600 <= VacantPairs[i][1] /\ VacantPairs[i][2] <= 21 * 3600
              /\ ~Meets(VacantPairs[i], LunchPair)
              /\ \A k \in 1 .. Len(occupied_list) : ~Meets(VacantPairs[i], occupied_list[k])
        /\ \A h \in 6 .. 20 :
              \/ HourIn(h, LunchPair)
              \/ \E i \in 1 .. Len(VacantPairs) : HourIn(h, VacantPairs[i])
              \/ \E k \in 1 .. Len(occupied_list) : HourIn(h, occupied_list[k])

\* C13: given an empty list, get_vacant_slots returns exactly the two gaps
\* 6:00 AM - 12:00 PM and 1:00 PM - 9:00 PM.
C13_EmptyGivesTwoGaps ==
    (vpc = "done" /\ occupied_list = <<>>) =>
        vacant_slots = << [start |-> <<6, 0, "AM">>, end |-> <<12, 0, "PM">>],
                          [start |-> <<1, 0, "PM">>, end |-> <<9, 0, "PM">>] >>

(***************************************************************************)
(* Properties of the load assigner.                                        *)
(***************************************************************************)
\* The positions of req_instructors that are the first with their user_id.
FirstOfUser ==
    { k \in 1 .. Len(req_instructors) :
        \A j \in 1 .. (k - 1) : req_instructors[j].user_id # req_instructors[k].user_id }

\* The departments with an instructor after deduplication.
StaffedDepts == { req_instructors[k].dept_id : k \in FirstOfUser }

\* The number of returned assignments that name the course.
TimesAssigned(course_id) ==
    Cardinality({ k \in 1 .. Len(assignments) : assignments[k].course_id = course_id })

UnitsOf(course_id) ==
    LET c == CHOOSE k \in 1 .. Len(req_courses) : req_courses[k].id = course_id
    IN  req_courses[c].units

\* The units of the courses the returned assignments give the instructor.
AssignedLoad(instructor_id) ==
    SumSeq([ k \in 1 .. Len(assignments) |->
               IF assignments[k].instructor_id = instructor_id
                  THEN UnitsOf(assignments[k].course_id) ELSE 0 ])

AssignCallReturned == apc = "done" /\ aresult = "returned"

\* C14: whatever the courses and instructors, the call returns a list in
\* which every course whose department has an instructor after
\* deduplication appears exactly once.
C14_EachStaffedCourseOnce ==
    apc = "done" =>
        /\ aresult = "returned"
        /\ \A k \in 1 .. Len(req_courses) :
              req_courses[k].dept_id \in StaffedDepts => TimesAssigned(req_courses[k].id) = 1

\* The courses and the deduplicated instructors of department d, as positions.
CoursesOfDept(d) == { k \in 1 .. Len(req_courses) : req_courses[k].dept_id = d }
InstructorsOfDept(d) == { k \in FirstOfUser : req_instructors[k].dept_id = d }

\* The load spread of the way g of giving the courses of C to the instructors of I.
WaySpread(g, C, I) ==
    LET load(i) == SumSeq([ k \in 1 .. Len(req_courses) |->
                              IF k \in C /\ g[k] = i THEN req_courses[k].units ELSE 0 ])
        loads == { load(i) : i \in I }
    IN  (CHOOSE x \in loads : \A y \in loads : y <= x)
        - (CHOOSE x \in loads : \A y \in loads : x <= y)

\* The load spread of the returned assignments within department d.
ReturnedSpread(d) ==
    LET loads == { AssignedLoad(req_instructors[i].id) : i \in InstructorsOfDept(d) }
    IN  (CHOOSE x \in loads : \A y \in loads : y <= x)
        - (CHOOSE x \in loads : \A y \in loads : x <= y)

\* Every course of department d appears in exactly one returned assignment.
DeptAssigned(d) == \A k \in CoursesOfDept(d) : TimesAssigned(req_courses[k].id) = 1

C16_LoadWithinMaxLoad ==
    AssignCallReturned =>
        \A i \in 1 .. Len(req_instructors) :
            AssignedLoad(req_instructors[i].id) <= req_instructors[i].max_load

\* The instructor a returned assignment names.
InstructorOf(a) ==
    req_instructors[CHOOSE i \in 1 .. Len(req_instructors) :
                       req_instructors[i].id = a.instructor_id]
CourseOf(a) ==
    req_courses[CHOOSE k \in 1 .. Len(req_courses) : req_courses[k].id = a.course_id]

\* C17: a department of courses without instructor is passed over with no
\* assignment and no error; every returned assignment pairs a course with an
\* instructor of the course's department; and the list added for a staffed
\* department is one that its own courses and instructors admit, whatever
\* unstaffed courses the request holds.
C17_UnstaffedSkipped ==
    /\ [](AssignCallReturned =>
            /\ \A k \in 1 .. Len(assignments) :
                  /\ \E i \in 1 .. Len(req_instructors) :
                        req_instructors[i].id = assignments[k].instructor_id
                  /\ InstructorOf(assignments[k]).dept_id = CourseOf(assignments[k]).dept_id
            /\ \A k \in 1 .. Len(req_courses) :
                  req_courses[k].dept_id \notin StaffedDepts
                      => TimesAssigned(req_courses[k].id) = 0)
    /\ [][ (apc = "loop" /\ pending_depts # <<>>) =>
             IF Head(pending_depts) \notin StaffedDepts
                THEN /\ assignments' = assignments
                     /\ aresult' = aresult
                     /\ apc' = "loop"
                     /\ pending_depts' = Tail(pending_depts)
                ELSE assignments' # assignments =>
                     LET d == Head(pending_depts)
                         added == SubSeq(assignments', Len(assignments) + 1, Len(assignments'))
                     IN  /\ SubSeq(assignments', 1, Len(assignments)) = assignments
                         /\ \A n \in 1 .. Len(added) :
                               /\ CourseOf(added[n]).dept_id = d
                               /\ \E i \in InstructorsOfDept(d) :
                                     req_instructors[i].id = added[n].instructor_id
                         /\ \A k \in CoursesOfDept(d) :
                               Cardinality({ n \in 1 .. Len(added) :
                                               added[n].course_id = req_courses[k].id }) = 1 ]_vars

\* The call returned assignments for a request that holds a course of a
\* department without instructor.
C17_Witness ==
    /\ AssignCallReturned
    /\ assignments # <<>>
    /\ \E k \in 1 .. Len(req_courses) : req_courses[k].dept_id \notin StaffedDepts

\* C18: the instructors that take part are the first of each user_id, in
\* input order, one per user_id, and no returned assignment names an
\* instructor dropped as a later duplicate.
C18_DedupKeepsFirst ==
    /\ apc \in {"loop", "done"} =>
          /\ Len(unique_instructors) = Cardinality(FirstOfUser)
          /\ \A n \in 1 .. Len(unique_instructors) :
                \E k \in FirstOfUser :
                   /\ unique_instructors[n] = req_instructors[k]
                   /\ Cardinality({ j \in FirstOfUser : j < k }) = n - 1
    /\ \A n \in 1 .. Len(assignments) :
          \E k \in FirstOfUser : req_instructors[k].id = assignments[n].instructor_id

\* A call returned assignments in the department of an instructor that was
\* dropped as a later duplicate.
C18_Witness ==
    /\ AssignCallReturned
    /\ \E j \in (1 .. Len(req_instructors)) \ FirstOfUser :
          \E n \in 1 .. Len(assignments) :
             CourseOf(assignments[n]).dept_id = req_instructors[j].dept_id

(***************************************************************************)
(* Properties of the conflict analyzer over reorderings of the list.       *)
(***************************************************************************)
\* The request with its existing list reordered by the permutation p.
Reordered(request, p) ==
    [ new_schedule |-> request.new_schedule,
      existing_schedules |->
          [ k \in 1 .. Len(request.existing_schedules) |-> request.existing_schedules[p[k]] ] ]

\* What a call ends with, as far as detection goes: a conflict report, the
\* no-conflict report, or an exception.
Detection(r) ==
    IF r.kind = "report" THEN (IF r.conflict THEN "conflict" ELSE "none") ELSE r.kind

\* C19: for every permutation of existing_schedules the call on the reordered
\* request ends the same way as the call on the original one (a conflict is
\* reported for the one if and only if for the other), and a school_hours or
\* lunch_break report is the same report.
C19_OrderIndependentDetection ==
    cpc = "done" =>
        \A p \in Permutations(1 .. Len(creq.existing_schedules)) :
            LET other == check_schedule_conflict_logic(Reordered(creq, p))
            IN  /\ Detection(other) = Detection(report)
                /\ (report.kind = "report" /\ report.type \in {"school_hours", "lunch_break"})
                      => other = report

\* The call ended its scan of a list of two records of which exactly one
\* matches new.
C19_Witness ==
    /\ cpc = "done"
    /\ reads > 0
    /\ Len(creq.existing_schedules) = 2
    /\ MatchesNew(1) # MatchesNew(2)

RunPositions ==
    { p \in (DOMAIN per_day_entries) \X (1 .. (MaxInstances * MaxDur)) :
        p[2] <= Len(per_day_entries[p[1]]) }

RunAt(p) == per_day_entries[p[1]][p[2]]

\* The positions of the runs emitted for the entry ent.
RunsOf(ent) ==
    { p \in RunPositions :
        /\ RunAt(p).section = ent.section
        /\ RunAt(p).subject_code = ent.subject_code }

RECURSIVE SumDurations(_)
SumDurations(P) ==
    IF P = {} THEN 0
    ELSE LET p == CHOOSE q \in P : TRUE
         IN  RunAt(p).duration + SumDurations(P \ {p})

\* The runs of ent split [start_slot, end_slot_exclusive) into pieces, each
\* inside the day it is filed under, with hours inside the day's hours.
RunsPartition(ent) ==
    /\ \A t \in ent.start_slot .. (ent.end_slot_exclusive - 1) :
          Cardinality({ p \in RunsOf(ent) :
                          /\ RunAt(p).start_slot <= t
                          /\ t < RunAt(p).start_slot + RunAt(p).duration }) = 1
    /\ \A p \in RunsOf(ent) :
          /\ RunAt(p).duration >= 1
          /\ ent.start_slot <= RunAt(p).start_slot
          /\ RunAt(p).start_slot + RunAt(p).duration <= ent.end_slot_exclusive
          /\ p[1] * cfg.hpd <= RunAt(p).start_slot
          /\ RunAt(p).start_slot + RunAt(p).duration <= (p[1] + 1) * cfg.hpd
          /\ start_hour <= RunAt(p).start_hour
          /\ RunAt(p).start_hour + RunAt(p).duration = RunAt(p).end_hour
          /\ RunAt(p).end_hour <= start_hour + cfg.hpd
          /\ RunAt(p).room = ent.room
          /\ RunAt(p).teacher_name = ent.teacher_name
    /\ SumDurations(RunsOf(ent)) = ent.duration

DaySorted(d_idx) ==
    \A i, j \in 1 .. Len(per_day_entries[d_idx]) :
        i < j => per_day_entries[d_idx][i].start_slot <= per_day_entries[d_idx][j].start_slot

PerDayViewBuilt ==
    /\ \A k \in 1 .. Len(schedule_entries) : RunsPartition(schedule_entries[k])
    /\ \A p \in RunPositions :
          \E k \in 1 .. Len(schedule_entries) : p \in RunsOf(schedule_entries[k])
    /\ \A d_idx \in DOMAIN per_day_entries : DaySorted(d_idx)

\* One step of the while loop: it never fails, and an iteration moves cur
\* forward without passing the end of the entry, so the loop ends.
WhileStep ==
    pd_pc = "runs" =>
        /\ pd_pc' # "key_error"
        /\ cur < schedule_entries[ent_idx].end_slot_exclusive =>
              /\ cur < cur'
              /\ cur' <= schedule_entries[ent_idx].end_slot_exclusive

\* C21: for every scheduled instance the loop over its slots terminates, and
\* once the per-day view is built the runs of the instance partition
\* [start_slot, end_slot_exclusive) into consecutive pieces, each inside the
\* single day it is filed under, whose durations sum to the duration of the
\* instance and whose start_hour and end_hour stay within
\* [start_hour, start_hour + hours_per_day]; every day's list is ascending by
\* start_slot.
C21_PerDayRuns ==
    /\ [](pd_pc = "done" => PerDayViewBuilt)
    /\ [][WhileStep]_vars

\* C21 witness: the view is built and an instance that crosses the end of a
\* day was split into a run on each of the two days.
C21_Witness ==
    /\ pd_pc = "done"
    /\ \E k \in 1 .. Len(schedule_entries) :
          /\ schedule_entries[k].start_day # schedule_entries[k].end_day
          /\ \E p, q \in RunsOf(schedule_entries[k]) : p[1] # q[1]

(***************************************************************************)
(* The pre-check against the model of build_and_solve.                     *)
(***************************************************************************)
\* The pre-check of the request at hand returned at least one error.
PrecheckRejected ==
    /\ route = "sched_AI"
    /\ pc = "value_error"
    /\ pre_errors # <<>>

\* C22: whenever the pre-check returns at least one error, the constraint
\* model build_and_solve would construct for the configuration has no
\* solution.
C22_RejectedIsInfeasible ==
    PrecheckRejected => Solutions(CpModel(cfg)) = {}

====
